---- MODULE Spec2Model ----
(***************************************************************************)
(* Model of the Filebase client (src/filebasepy/__init__.py).              *)
(*                                                                         *)
(* Text the program inspects character by character (bucket names, object  *)
(* keys, credentials, JSON text, the bearer token) is a sequence of        *)
(* Unicode code points; a byte string is a sequence of numbers 0..255.     *)
(* Literals the program only passes along (URLs, header names, reason      *)
(* phrases) are TLA+ strings.  A Python dict is a function whose DOMAIN    *)
(* is its key set, so a missing key is a failed lookup (KeyError).         *)
(*                                                                         *)
(* The two backends (the boto3 S3 handle and requests.get) are external:   *)
(* each call is answered nondeterministically by a response or by a        *)
(* raised exception.                                                       *)
(***************************************************************************)
EXTENDS Integers, Sequences, FiniteSets, TLC

VARIABLES client, call, answer, requests, outcome

vars == <<client, call, answer, requests, outcome>>

(***************************************************************************)
(* Bounds of the model.                                                    *)
(***************************************************************************)
MaxKeyLen == 1
MaxBucketLen == 1
MaxDepth == 1

(***************************************************************************)
(* Global constants of the module.                                         *)
(***************************************************************************)
API_ENDPOINT == "https://api.filebase.io/v1/"
AWS_ENDPOINT == "https://s3.filebase.com"

(***************************************************************************)
(* Input alphabets.  107 'k'; 66 'B', 201 'E-acute' (upper case, two UTF-8 *)
(* bytes), 55296 a lone surrogate (a Python str may hold one, UTF-8 cannot *)
(* encode it).  The secret key is 's'.                                     *)
(***************************************************************************)
KeyChars == {107}
BucketChars == {66, 201, 55296}

Str(chars, n) == UNION {[1..k -> chars] : k \in 0..n}

Keys == Str(KeyChars, MaxKeyLen)
Buckets == Str(BucketChars, MaxBucketLen)
SecretKeys == {<<115>>}

\* the object key 'N.'
Names == {<<78, 46>>}

(***************************************************************************)
(* str.lower(): ASCII and Latin-1 upper-case letters map 32 code points    *)
(* up (215 is the multiplication sign); every other code point the model   *)
(* uses is its own lower case.                                             *)
(***************************************************************************)
LowerChar(c) == IF (c >= 65 /\ c <= 90) \/ (c >= 192 /\ c <= 222 /\ c # 215) THEN c + 32 ELSE c

lower(s) == [i \in 1..Len(s) |-> LowerChar(s[i])]

(***************************************************************************)
(* str.encode('utf-8') / bytes(s, 'utf-8'): one byte below 128, two below  *)
(* 2048, three below 65536, four above; a surrogate (55296..57343) raises  *)
(* UnicodeEncodeError.                                                     *)
(***************************************************************************)
IsSurrogate(c) == c >= 55296 /\ c <= 57343

Utf8Char(c) ==
    IF c < 128 THEN <<c>>
    ELSE IF c < 2048 THEN <<192 + (c \div 64), 128 + (c % 64)>>
    ELSE IF c < 65536 THEN <<224 + (c \div 4096), 128 + ((c \div 64) % 64), 128 + (c % 64)>>
    ELSE <<240 + (c \div 262144), 128 + ((c \div 4096) % 64), 128 + ((c \div 64) % 64), 128 + (c % 64)>>

\* the concatenation of the sequences parts[lo], ..., parts[hi]
RECURSIVE Join(_, _, _)
Join(parts, lo, hi) ==
    IF lo > hi THEN <<>>
    ELSE IF lo = hi THEN parts[lo]
    ELSE Join(parts, lo, (lo + hi) \div 2) \o Join(parts, (lo + hi) \div 2 + 1, hi)

Utf8Bytes(s) == Join([i \in 1..Len(s) |-> Utf8Char(s[i])], 1, Len(s))

utf8_encode(s) == IF \E i \in 1..Len(s) : IsSurrogate(s[i]) THEN [ok |-> FALSE, exc |-> "UnicodeEncodeError"] ELSE [ok |-> TRUE, bytes |-> Utf8Bytes(s)]

(***************************************************************************)
(* bytes.decode('utf-8') of the base64 output, which is ASCII only: each   *)
(* byte below 128 is the code point of the same number.                    *)
(***************************************************************************)
ascii_decode(b) == [i \in 1..Len(b) |-> b[i]]

(***************************************************************************)
(* base64.b64encode: every 3 bytes give 4 characters of the alphabet       *)
(* A-Z a-z 0-9 + /, a final group of 1 or 2 bytes is padded with '='.      *)
(***************************************************************************)
B64Char(i) == IF i < 26 THEN 65 + i ELSE IF i < 52 THEN 97 + (i - 26) ELSE IF i < 62 THEN 48 + (i - 52) ELSE IF i = 62 THEN 43 ELSE 47

RECURSIVE b64encode(_)
b64encode(b) ==
    IF Len(b) = 0 THEN <<>>
    ELSE IF Len(b) = 1 THEN
        <<B64Char(b[1] \div 4), B64Char((b[1] % 4) * 16), 61, 61>>
    ELSE IF Len(b) = 2 THEN
        <<B64Char(b[1] \div 4), B64Char((b[1] % 4) * 16 + (b[2] \div 16)),
          B64Char((b[2] % 16) * 4), 61>>
    ELSE
        <<B64Char(b[1] \div 4), B64Char((b[1] % 4) * 16 + (b[2] \div 16)),
          B64Char((b[2] % 16) * 4 + (b[3] \div 64)), B64Char(b[3] % 64)>>
        \o b64encode(SubSeq(b, 4, Len(b)))

(***************************************************************************)
(* f"{api_key}:{secret_key}:{bucket}" and f"Bearer {token}".               *)
(***************************************************************************)
TokenText(api_key, secret_key, bucket) == api_key \o <<58>> \o secret_key \o <<58>> \o bucket

BearerText(token) == <<66, 101, 97, 114, 101, 114, 32>> \o token

(***************************************************************************)
(* Python values handed to upload_metadata as data: a record [t, v] with   *)
(* t the Python type.  A dict is the sequence of its items [k, v] in       *)
(* insertion order.                                                        *)
(***************************************************************************)
PyNone == [t |-> "NoneType"]
PyBool(b) == [t |-> "bool", v |-> b]
PyInt(n) == [t |-> "int", v |-> n]
PyNaN == [t |-> "float", v |-> "nan"]
PyStr(s) == [t |-> "str", v |-> s]
PyList(xs) == [t |-> "list", v |-> xs]
PyTuple(xs) == [t |-> "tuple", v |-> xs]
PyDict(items) == [t |-> "dict", v |-> items]
PySet == [t |-> "set", v |-> {}]

(***************************************************************************)
(* json.dumps(data, indent=4), as json.encoder._make_iterencode computes   *)
(* it with the defaults ensure_ascii=True, allow_nan=True, skipkeys=False  *)
(* and, because indent is given, the separators ',' and ': '.              *)
(***************************************************************************)
HexDigit(d) == IF d < 10 THEN 48 + d ELSE 87 + d

Hex4(n) == <<HexDigit((n \div 4096) % 16), HexDigit((n \div 256) % 16), HexDigit((n \div 16) % 16), HexDigit(n % 16)>>

\* py_encode_basestring_ascii: one character of a str
EscapeChar(c) ==
    IF c = 34 THEN <<92, 34>>
    ELSE IF c = 92 THEN <<92, 92>>
    ELSE IF c = 10 THEN <<92, 110>>
    ELSE IF c = 13 THEN <<92, 114>>
    ELSE IF c = 9 THEN <<92, 116>>
    ELSE IF c = 8 THEN <<92, 98>>
    ELSE IF c = 12 THEN <<92, 102>>
    ELSE IF c >= 32 /\ c <= 126 THEN <<c>>
    ELSE IF c < 65536 THEN <<92, 117>> \o Hex4(c)
    ELSE <<92, 117>> \o Hex4(55296 + ((c - 65536) \div 1024)) \o <<92, 117>> \o Hex4(56320 + ((c - 65536) % 1024))

EscapeChars(s) == Join([i \in 1..Len(s) |-> EscapeChar(s[i])], 1, Len(s))

encode_str(s) == <<34>> \o EscapeChars(s) \o <<34>>

RECURSIVE Digits(_)
Digits(n) == IF n < 10 THEN <<48 + n>> ELSE Digits(n \div 10) \o <<48 + (n % 10)>>

\* int.__repr__
int_repr(n) == IF n < 0 THEN <<45>> \o Digits(0 - n) ELSE Digits(n)

IndentWidth == 4

Spaces(n) == [i \in 1..n |-> 32]

\* mutant of newline_indent: an indent of 2 spaces per level
newline_indent_two(level) == <<10>> \o Spaces(2 * level)

\* '\n' + indent * level
newline_indent(level) == <<10>> \o Spaces(IndentWidth * level)

\* the key of a dict item as _iterencode_dict coerces it; str keys are kept
KeyOk(k) == k.t \in {"str", "int", "bool", "NoneType", "float"}

KeyText(k) ==
    IF k.t = "str" THEN k.v
    ELSE IF k.t = "int" THEN int_repr(k.v)
    ELSE IF k.t = "bool" THEN (IF k.v THEN <<116, 114, 117, 101>> ELSE <<102, 97, 108, 115, 101>>)
    ELSE IF k.t = "NoneType" THEN <<110, 117, 108, 108>>
    ELSE <<78, 97, 78>>

\* whether _iterencode reaches no TypeError (default() on an unknown type,
\* or a dict key that is not str, int, float, bool or None)
RECURSIVE Serializable(_)
Serializable(o) ==
    IF o.t \in {"NoneType", "bool", "int", "float", "str"} THEN TRUE
    ELSE IF o.t \in {"list", "tuple"} THEN \A i \in 1..Len(o.v) : Serializable(o.v[i])
    ELSE IF o.t = "dict" THEN \A i \in 1..Len(o.v) : KeyOk(o.v[i].k) /\ Serializable(o.v[i].v)
    ELSE FALSE

RECURSIVE iterencode(_, _)
RECURSIVE iterencode_list(_, _, _)
RECURSIVE iterencode_dict(_, _, _)
iterencode(o, level) ==
    IF o.t = "str" THEN encode_str(o.v)
    ELSE IF o.t = "NoneType" THEN <<110, 117, 108, 108>>
    ELSE IF o.t = "bool" THEN (IF o.v THEN <<116, 114, 117, 101>> ELSE <<102, 97, 108, 115, 101>>)
    ELSE IF o.t = "int" THEN int_repr(o.v)
    ELSE IF o.t = "float" THEN <<78, 97, 78>>
    ELSE IF o.t \in {"list", "tuple"} THEN
        (IF Len(o.v) = 0 THEN <<91, 93>>
         ELSE <<91>> \o iterencode_list(o.v, 1, level + 1) \o newline_indent(level) \o <<93>>)
    ELSE
        (IF Len(o.v) = 0 THEN <<123, 125>>
         ELSE <<123>> \o iterencode_dict(o.v, 1, level + 1) \o newline_indent(level) \o <<125>>)

\* items i.. of a non-empty list at nesting level `level`
iterencode_list(xs, i, level) ==
    IF i > Len(xs) THEN <<>>
    ELSE (IF i = 1 THEN newline_indent(level) ELSE <<44>> \o newline_indent(level))
         \o iterencode(xs[i], level) \o iterencode_list(xs, i + 1, level)

\* items i.. of a non-empty dict at nesting level `level`
iterencode_dict(items, i, level) ==
    IF i > Len(items) THEN <<>>
    ELSE (IF i = 1 THEN newline_indent(level) ELSE <<44>> \o newline_indent(level))
         \o encode_str(KeyText(items[i].k)) \o <<58, 32>>
         \o iterencode(items[i].v, level) \o iterencode_dict(items, i + 1, level)

dumps(data) == IF Serializable(data) THEN [ok |-> TRUE, text |-> iterencode(data, 0)] ELSE [ok |-> FALSE, exc |-> "TypeError"]

(***************************************************************************)
(* json.loads(text), which requests' response.json() applies to the body:  *)
(* json.decoder.JSONDecoder.decode with json.scanner.py_make_scanner.      *)
(* A result is [ok |-> TRUE, val, end] (end: the index after the value) or *)
(* [ok |-> FALSE, exc] (JSONDecodeError).  Of the number grammar the model *)
(* reads integers and the constant NaN.                                    *)
(***************************************************************************)
DecodeError == [ok |-> FALSE, exc |-> "JSONDecodeError"]

Whitespace == {32, 9, 10, 13}

\* WHITESPACE.match(s, i).end(): the first index from i on that holds no whitespace
SkipWs(s, i) == CHOOSE j \in i..(Len(s) + 1) : (\A k \in i..(j - 1) : s[k] \in Whitespace) /\ (j = Len(s) + 1 \/ s[j] \notin Whitespace)

\* whether text s holds the literal lit at index i
HasLiteral(s, i, lit) == i + Len(lit) - 1 <= Len(s) /\ SubSeq(s, i, i + Len(lit) - 1) = lit

IsHexDigit(c) == (c >= 48 /\ c <= 57) \/ (c >= 97 /\ c <= 102) \/ (c >= 65 /\ c <= 70)

HexVal(c) == IF c <= 57 THEN c - 48 ELSE IF c >= 97 THEN c - 87 ELSE c - 55

\* BACKSLASH: the character a one-letter escape stands for, 0 when it is none
Unescape(c) ==
    IF c \in {34, 92, 47} THEN c
    ELSE IF c = 98 THEN 8
    ELSE IF c = 102 THEN 12
    ELSE IF c = 110 THEN 10
    ELSE IF c = 114 THEN 13
    ELSE IF c = 116 THEN 9
    ELSE 0

\* py_scanstring from index i, the character after the opening quote
RECURSIVE scanstring(_, _, _)
scanstring(s, i, acc) ==
    IF i > Len(s) THEN DecodeError
    ELSE IF s[i] = 34 THEN [ok |-> TRUE, val |-> acc, end |-> i + 1]
    ELSE IF s[i] < 32 THEN DecodeError
    ELSE IF s[i] # 92 THEN scanstring(s, i + 1, Append(acc, s[i]))
    ELSE IF i + 1 > Len(s) THEN DecodeError
    ELSE IF s[i + 1] = 117 THEN
        (IF i + 5 > Len(s) \/ \E k \in (i + 2)..(i + 5) : ~IsHexDigit(s[k]) THEN DecodeError
         ELSE LET uni == HexVal(s[i + 2]) * 4096 + HexVal(s[i + 3]) * 256 + HexVal(s[i + 4]) * 16 + HexVal(s[i + 5])
                  paired == /\ uni >= 55296 /\ uni <= 56319
                            /\ i + 11 <= Len(s) /\ s[i + 6] = 92 /\ s[i + 7] = 117
                            /\ \A k \in (i + 8)..(i + 11) : IsHexDigit(s[k])
                  uni2 == HexVal(s[i + 8]) * 4096 + HexVal(s[i + 9]) * 256 + HexVal(s[i + 10]) * 16 + HexVal(s[i + 11])
              IN  IF paired /\ uni2 >= 56320 /\ uni2 <= 57343
                  THEN scanstring(s, i + 12, Append(acc, 65536 + (uni - 55296) * 1024 + (uni2 - 56320)))
                  ELSE scanstring(s, i + 6, Append(acc, uni)))
    ELSE IF Unescape(s[i + 1]) = 0 THEN DecodeError
    ELSE scanstring(s, i + 2, Append(acc, Unescape(s[i + 1])))

IsDigit(c) == c >= 48 /\ c <= 57

\* the index after the digits that start at i
DigitsEnd(s, i) == CHOOSE j \in i..(Len(s) + 1) : (\A k \in i..(j - 1) : IsDigit(s[k])) /\ (j = Len(s) + 1 \/ ~IsDigit(s[j]))

RECURSIVE DigitsValue(_, _, _)
DigitsValue(s, i, j) == IF j < i THEN 0 ELSE DigitsValue(s, i, j - 1) * 10 + (s[j] - 48)

\* NUMBER_RE, integers only: -?(0|[1-9][0-9]*); a fraction or exponent is outside the model
scan_int(s, i) ==
    LET neg == s[i] = 45
        d == IF neg THEN i + 1 ELSE i
        e == IF d <= Len(s) /\ s[d] = 48 THEN d + 1 ELSE DigitsEnd(s, d)
    IN  IF d > Len(s) \/ e = d THEN DecodeError
        ELSE [ok |-> TRUE, val |-> PyInt(IF neg THEN 0 - DigitsValue(s, d, e - 1) ELSE DigitsValue(s, d, e - 1)), end |-> e]

\* dict[key] = value: an existing key keeps its place and takes the new value
SetItem(items, k, v) ==
    IF \E i \in 1..Len(items) : items[i].k = k
    THEN [i \in 1..Len(items) |-> IF items[i].k = k THEN [k |-> k, v |-> v] ELSE items[i]]
    ELSE Append(items, [k |-> k, v |-> v])

RECURSIVE scan_once(_, _)
RECURSIVE array_items(_, _, _)
RECURSIVE object_items(_, _, _)
scan_once(s, i) ==
    IF i > Len(s) THEN DecodeError
    ELSE IF s[i] = 34 THEN
        (LET r == scanstring(s, i + 1, <<>>)
         IN  IF r.ok THEN [ok |-> TRUE, val |-> PyStr(r.val), end |-> r.end] ELSE DecodeError)
    ELSE IF s[i] = 123 THEN
        (LET j == SkipWs(s, i + 1)
         IN  IF j <= Len(s) /\ s[j] = 125 THEN [ok |-> TRUE, val |-> PyDict(<<>>), end |-> j + 1]
             ELSE object_items(s, j, <<>>))
    ELSE IF s[i] = 91 THEN
        (LET j == SkipWs(s, i + 1)
         IN  IF j <= Len(s) /\ s[j] = 93 THEN [ok |-> TRUE, val |-> PyList(<<>>), end |-> j + 1]
             ELSE array_items(s, j, <<>>))
    ELSE IF HasLiteral(s, i, <<110, 117, 108, 108>>) THEN [ok |-> TRUE, val |-> PyNone, end |-> i + 4]
    ELSE IF HasLiteral(s, i, <<116, 114, 117, 101>>) THEN [ok |-> TRUE, val |-> PyBool(TRUE), end |-> i + 4]
    ELSE IF HasLiteral(s, i, <<102, 97, 108, 115, 101>>) THEN [ok |-> TRUE, val |-> PyBool(FALSE), end |-> i + 5]
    ELSE IF IsDigit(s[i]) \/ s[i] = 45 THEN scan_int(s, i)
    ELSE IF HasLiteral(s, i, <<78, 97, 78>>) THEN [ok |-> TRUE, val |-> PyNaN, end |-> i + 3]
    ELSE DecodeError

\* JSONArray from the value at index i, acc the values read so far
array_items(s, i, acc) ==
    LET r == scan_once(s, i)
    IN  IF ~r.ok THEN DecodeError
        ELSE LET j == SkipWs(s, r.end)
             IN  IF j > Len(s) THEN DecodeError
                 ELSE IF s[j] = 93 THEN [ok |-> TRUE, val |-> PyList(Append(acc, r.val)), end |-> j + 1]
                 ELSE IF s[j] = 44 THEN array_items(s, SkipWs(s, j + 1), Append(acc, r.val))
                 ELSE DecodeError

\* JSONObject from the key's opening quote at index i, acc the items read so far
object_items(s, i, acc) ==
    IF i > Len(s) \/ s[i] # 34 THEN DecodeError
    ELSE LET key == scanstring(s, i + 1, <<>>)
         IN  IF ~key.ok THEN DecodeError
             ELSE LET c == SkipWs(s, key.end)
                  IN  IF c > Len(s) \/ s[c] # 58 THEN DecodeError
                      ELSE LET r == scan_once(s, SkipWs(s, c + 1))
                           IN  IF ~r.ok THEN DecodeError
                               ELSE LET j == SkipWs(s, r.end)
                                        items == SetItem(acc, PyStr(key.val), r.val)
                                    IN  IF j > Len(s) THEN DecodeError
                                        ELSE IF s[j] = 125 THEN [ok |-> TRUE, val |-> PyDict(items), end |-> j + 1]
                                        ELSE IF s[j] = 44 THEN object_items(s, SkipWs(s, j + 1), items)
                                        ELSE DecodeError

\* JSONDecoder.decode: one value, whitespace around it, nothing after it
loads(s) ==
    LET r == scan_once(s, SkipWs(s, 1))
    IN  IF ~r.ok THEN DecodeError
        ELSE IF SkipWs(s, r.end) # Len(s) + 1 THEN DecodeError
        ELSE [ok |-> TRUE, val |-> r.val]

(***************************************************************************)
(* Backend answers.  An answer to a backend call is a response or a raised *)
(* exception (a subclass of Exception: botocore's ClientError, requests'   *)
(* ConnectionError).  Every boto3 response carries ResponseMetadata with   *)
(* HTTPStatusCode and HTTPHeaders; the x-amz-meta-cid header and the       *)
(* Buckets key are the backend's to send or leave out.                     *)
(***************************************************************************)
NoAnswer == [kind |-> "none"]

Exc(class) == [class |-> class]

S3Statuses == {200, 204, 404}

CidHeaders == {<<>>, ("x-amz-meta-cid" :> "QmCid")}

BucketLists == {<<[Name |-> <<98>>]>>}

PlainResponses == {[ResponseMetadata |-> [HTTPStatusCode |-> st, HTTPHeaders |-> <<>>]] : st \in S3Statuses}

PutObjectResponses == {[ResponseMetadata |-> [HTTPStatusCode |-> st, HTTPHeaders |-> h]] : st \in S3Statuses, h \in CidHeaders}

ListBucketsResponses == PlainResponses \cup {[ResponseMetadata |-> [HTTPStatusCode |-> st, HTTPHeaders |-> <<>>], Buckets |-> bl] : st \in S3Statuses, bl \in BucketLists}

AnswersOf(responses, exc) == {[kind |-> "response", response |-> r] : r \in responses} \cup {[kind |-> "raise", exc |-> Exc(exc)]}

\* bodies the REST backend may send: the pin listing {"count": 0, "results": []}
\* and an empty body
HttpTexts == {<<123, 34, 99, 111, 117, 110, 116, 34, 58, 32, 48, 44, 32, 34, 114, 101, 115, 117, 108, 116, 115, 34, 58, 32, 91, 93, 125>>, <<>>}

HttpStatusLines == {[status_code |-> 200, reason |-> "OK"], [status_code |-> 204, reason |-> "No Content"], [status_code |-> 500, reason |-> "Internal Server Error"]}

HttpResponses == {[class |-> "requests.Response", status_code |-> l.status_code, reason |-> l.reason, text |-> t] : l \in HttpStatusLines, t \in HttpTexts}

\* requests.Response.ok: raise_for_status() raises for 400 <= status_code < 600
ok(response) == ~(response.status_code >= 400 /\ response.status_code < 600)

\* the files open(path, 'rb') can open, with their content
FileSystem == [p \in {"/tmp/present.bin"} |-> <<137, 80, 78, 71>>]

Paths == {"/dir/to/file/test.png", "/tmp/present.bin"}

(***************************************************************************)
(* The client.  Filebase(api_key, secret) is the object __init__ leaves.   *)
(***************************************************************************)
Filebase(filebase_api_key, filebase_secret_api_key) ==
    [filebase_api_key |-> filebase_api_key,
     filebase_secret_api_key |-> filebase_secret_api_key,
     s3 |-> [service |-> "s3", endpoint_url |-> AWS_ENDPOINT,
             aws_access_key_id |-> filebase_api_key,
             aws_secret_access_key |-> filebase_secret_api_key]]

\* how a call ends: it returns a value (the success payload, an error
\* record, or an exception object) or it raises
Returned(shape, value) == [kind |-> "return", shape |-> shape, value |-> value]

Raised(exc) == [kind |-> "raise", shape |-> "exception", value |-> exc]

\* isinstance(response, dict): the HTTP response is an object of a class
IsDict(response) == "class" \notin DOMAIN response

\* mutant of handle_error: the text of a dict response is its metadata only
handle_error_metadata_text(response) ==
    IF IsDict(response)
    THEN [status |-> response.ResponseMetadata.HTTPStatusCode,
          reason |-> response.ResponseMetadata.HTTPStatusCode,
          text |-> response.ResponseMetadata]
    ELSE [status |-> response.status_code, reason |-> response.reason, text |-> response.text]

handle_error(response) ==
    IF IsDict(response)
    THEN [status |-> response.ResponseMetadata.HTTPStatusCode,
          reason |-> response.ResponseMetadata.HTTPStatusCode,
          text |-> response]
    ELSE [status |-> response.status_code, reason |-> response.reason, text |-> response.text]

(***************************************************************************)
(* The operations.  Each is the whole method: given self, the arguments    *)
(* and the backend's answer to the call it may make, it yields self after  *)
(* the call, the backend requests issued, and how the call ended.          *)
(***************************************************************************)
Done(self, reqs, out) == [self |-> self, requests |-> reqs, outcome |-> out]

\* mutant of create_bucket: it keeps the bucket name on the client
create_bucket_remembering(self, name, ans) ==
    LET req == [api |-> "create_bucket", Bucket |-> lower(name)]
        kept == ("bucket" :> lower(name)) @@ self
    IN  IF ans.kind = "raise" THEN Done(kept, <<req>>, Returned("exception", ans.exc))
        ELSE LET response == ans.response
             IN  IF response.ResponseMetadata.HTTPStatusCode = 200
                 THEN Done(kept, <<req>>, Returned("payload", response))
                 ELSE Done(kept, <<req>>, Returned("error_record", handle_error(response)))

create_bucket(self, name, ans) ==
    LET req == [api |-> "create_bucket", Bucket |-> lower(name)]
    IN  IF ans.kind = "raise" THEN Done(self, <<req>>, Returned("exception", ans.exc))
        ELSE LET response == ans.response
             IN  IF response.ResponseMetadata.HTTPStatusCode = 200
                 THEN Done(self, <<req>>, Returned("payload", response))
                 ELSE Done(self, <<req>>, Returned("error_record", handle_error(response)))

\* mutant of list_pinned_objects: the token holds the lowercased bucket
list_pinned_objects_lowercased(self, bucket, ans) ==
    LET encoded == utf8_encode(TokenText(self.filebase_api_key, self.filebase_secret_api_key, lower(bucket)))
    IN  IF ~encoded.ok THEN Done(self, <<>>, Raised(Exc(encoded.exc)))
        ELSE LET base64encoded == ascii_decode(b64encode(encoded.bytes))
                 headers == ("Authorization" :> BearerText(base64encoded)) @@ ("Content-Type" :> "application/json")
                 req == [api |-> "requests.get", url |-> API_ENDPOINT \o "ipfs/pins", headers |-> headers]
             IN  IF ans.kind = "raise" THEN Done(self, <<req>>, Returned("exception", ans.exc))
                 ELSE LET response == ans.response
                          json == loads(response.text)
                      IN  IF ok(response)
                          THEN (IF json.ok THEN Done(self, <<req>>, Returned("payload", json.val))
                                ELSE Done(self, <<req>>, Returned("exception", Exc(json.exc))))
                          ELSE Done(self, <<req>>, Returned("error_record", handle_error(response)))

\* mutant of list_pinned_objects: response.json() whatever the status
list_pinned_objects_unchecked(self, bucket, ans) ==
    LET encoded == utf8_encode(TokenText(self.filebase_api_key, self.filebase_secret_api_key, bucket))
    IN  IF ~encoded.ok THEN Done(self, <<>>, Raised(Exc(encoded.exc)))
        ELSE LET base64encoded == ascii_decode(b64encode(encoded.bytes))
                 headers == ("Authorization" :> BearerText(base64encoded)) @@ ("Content-Type" :> "application/json")
                 req == [api |-> "requests.get", url |-> API_ENDPOINT \o "ipfs/pins", headers |-> headers]
             IN  IF ans.kind = "raise" THEN Done(self, <<req>>, Returned("exception", ans.exc))
                 ELSE LET response == ans.response
                          json == loads(response.text)
                      IN  IF json.ok THEN Done(self, <<req>>, Returned("payload", json.val))
                          ELSE Done(self, <<req>>, Returned("exception", Exc(json.exc)))

list_pinned_objects(self, bucket, ans) ==
    LET encoded == utf8_encode(TokenText(self.filebase_api_key, self.filebase_secret_api_key, bucket))
    IN  IF ~encoded.ok THEN Done(self, <<>>, Raised(Exc(encoded.exc)))
        ELSE LET base64encoded == ascii_decode(b64encode(encoded.bytes))
                 headers == ("Authorization" :> BearerText(base64encoded)) @@ ("Content-Type" :> "application/json")
                 req == [api |-> "requests.get", url |-> API_ENDPOINT \o "ipfs/pins", headers |-> headers]
             IN  IF ans.kind = "raise" THEN Done(self, <<req>>, Returned("exception", ans.exc))
                 ELSE LET response == ans.response
                          json == loads(response.text)
                      IN  IF ok(response)
                          THEN (IF json.ok THEN Done(self, <<req>>, Returned("payload", json.val))
                                ELSE Done(self, <<req>>, Returned("exception", Exc(json.exc))))
                          ELSE Done(self, <<req>>, Returned("error_record", handle_error(response)))

list_buckets(self, ans) ==
    LET req == [api |-> "list_buckets"]
    IN  IF ans.kind = "raise" THEN Done(self, <<req>>, Returned("exception", ans.exc))
        ELSE LET response == ans.response
             IN  IF response.ResponseMetadata.HTTPStatusCode = 200
                 THEN (IF "Buckets" \in DOMAIN response
                       THEN Done(self, <<req>>, Returned("payload", response.Buckets))
                       ELSE Done(self, <<req>>, Returned("exception", Exc("KeyError"))))
                 ELSE Done(self, <<req>>, Returned("error_record", handle_error(response)))

\* self.s3.put_object(...) and the return statement after it, which
\* upload_object and upload_metadata share word for word
PutObjectCall(self, body, name, bucket, ans) ==
    LET req == [api |-> "put_object", Body |-> body, Bucket |-> lower(bucket), Key |-> name]
    IN  IF ans.kind = "raise" THEN Done(self, <<req>>, Returned("exception", ans.exc))
        ELSE LET response == ans.response
             IN  IF response.ResponseMetadata.HTTPStatusCode = 200
                 THEN (IF "x-amz-meta-cid" \in DOMAIN response.ResponseMetadata.HTTPHeaders
                       THEN Done(self, <<req>>, Returned("payload", response.ResponseMetadata.HTTPHeaders["x-amz-meta-cid"]))
                       ELSE Done(self, <<req>>, Returned("exception", Exc("KeyError"))))
                 ELSE Done(self, <<req>>, Returned("error_record", handle_error(response)))

\* mutant of upload_object: the path goes to put_object unopened
upload_object_unopened(self, path_to_file, name, bucket, ans) == PutObjectCall(self, [file |-> path_to_file], name, bucket, ans)

upload_object(self, path_to_file, name, bucket, ans) ==
    IF path_to_file \notin DOMAIN FileSystem
    THEN Done(self, <<>>, Returned("exception", Exc("FileNotFoundError")))
    ELSE PutObjectCall(self, [file |-> path_to_file], name, bucket, ans)

\* mutant of delete_object: every 2xx status counts as success
delete_object_any_2xx(self, name, bucket, ans) ==
    LET req == [api |-> "delete_object", Bucket |-> lower(bucket), Key |-> name]
    IN  IF ans.kind = "raise" THEN Done(self, <<req>>, Returned("exception", ans.exc))
        ELSE LET response == ans.response
             IN  IF response.ResponseMetadata.HTTPStatusCode >= 200 /\ response.ResponseMetadata.HTTPStatusCode < 300
                 THEN Done(self, <<req>>, Returned("payload", response))
                 ELSE Done(self, <<req>>, Returned("error_record", handle_error(response)))

\* mutant of delete_object: a call that raised is made once more
delete_object_retry(self, name, bucket, ans) ==
    LET req == [api |-> "delete_object", Bucket |-> lower(bucket), Key |-> name]
    IN  IF ans.kind = "raise" THEN Done(self, <<req, req>>, Returned("exception", ans.exc))
        ELSE LET response == ans.response
             IN  IF response.ResponseMetadata.HTTPStatusCode = 200
                 THEN Done(self, <<req>>, Returned("payload", response))
                 ELSE Done(self, <<req>>, Returned("error_record", handle_error(response)))

delete_object(self, name, bucket, ans) ==
    LET req == [api |-> "delete_object", Bucket |-> lower(bucket), Key |-> name]
    IN  IF ans.kind = "raise" THEN Done(self, <<req>>, Returned("exception", ans.exc))
        ELSE LET response == ans.response
             IN  IF response.ResponseMetadata.HTTPStatusCode = 200
                 THEN Done(self, <<req>>, Returned("payload", response))
                 ELSE Done(self, <<req>>, Returned("error_record", handle_error(response)))

upload_metadata(self, data, name, bucket, ans) ==
    LET text == dumps(data)
    IN  IF ~text.ok THEN Done(self, <<>>, Returned("exception", Exc(text.exc)))
        ELSE LET encoded_metadata == utf8_encode(text.text)
             IN  IF ~encoded_metadata.ok THEN Done(self, <<>>, Returned("exception", Exc(encoded_metadata.exc)))
                 ELSE PutObjectCall(self, [bytes |-> encoded_metadata.bytes], name, bucket, ans)

(***************************************************************************)
(* Inputs of the calls.                                                    *)
(***************************************************************************)
PlainAnswers == AnswersOf(PlainResponses, "ClientError")

PutObjectAnswers == AnswersOf(PutObjectResponses, "ClientError")

ListBucketsAnswers == AnswersOf(ListBucketsResponses, "ClientError")

HttpAnswers == AnswersOf(HttpResponses, "ConnectionError")

\* the data of the demo call, '/dir/to/file/metadata.json', a dict, and a
\* set, which json cannot serialize
TestData == PyStr(<<47, 100, 105, 114, 47, 116, 111, 47, 102, 105, 108, 101, 47, 109, 101, 116, 97, 100, 97, 116, 97, 46, 106, 115, 111, 110>>)

DataSample == {TestData, PyDict(<<[k |-> PyStr(<<97>>), v |-> PyInt(1)]>>), PySet}

\* data for the serialization: scalars, a set, the empty containers and a
\* dict holding a list; and around each value of one depth the containers
\* of the next
Sibling == PyInt(-7)

Leaves == {PyNone, PyBool(TRUE), PyInt(12), PyNaN, PyStr(<<97, 34, 233>>), TestData, PySet, PyList(<<>>), PyDict(<<>>), PyDict(<<[k |-> PyStr(<<98>>), v |-> PyList(<<PyInt(0)>>)]>>)}

Wrap(v) == {PyList(<<Sibling, v>>), PyTuple(<<v>>), PyDict(<<[k |-> PyStr(<<97>>), v |-> Sibling], [k |-> PyStr(<<98>>), v |-> v]>>), PyDict(<<[k |-> PyInt(1), v |-> v]>>)}

RECURSIVE DataOfDepth(_)
DataOfDepth(d) == IF d = 0 THEN Leaves ELSE UNION {Wrap(v) : v \in DataOfDepth(d - 1)}

Data == UNION {DataOfDepth(d) : d \in 0..MaxDepth}

\* a raised exception stands for any answer where only the requests matter
Probe == [kind |-> "raise", exc |-> Exc("Exception")]

\* the backend answers only a call that is made
AnswersFor(reqs, answers) == IF reqs = <<>> THEN {NoAnswer} ELSE answers

(***************************************************************************)
(* State: the client object, the last call made on it, the requests that   *)
(* call issued to the backends, the backend's answer, and how it ended.    *)
(***************************************************************************)
Invoke(c, r, ans) ==
    /\ client' = r.self
    /\ call' = c
    /\ requests' = r.requests
    /\ answer' = ans
    /\ outcome' = r.outcome

Init ==
    /\ \E api_key \in Keys, secret_key \in SecretKeys : client = Filebase(api_key, secret_key)
    /\ call = [op |-> "__init__"]
    /\ requests = <<>>
    /\ answer = NoAnswer
    /\ outcome = [kind |-> "return", shape |-> "none"]

CreateBucket ==
    \E name \in Buckets :
        \E ans \in AnswersFor(create_bucket(client, name, Probe).requests, PlainAnswers) :
            Invoke([op |-> "create_bucket", name |-> name], create_bucket(client, name, ans), ans)

ListPinnedObjects ==
    \E bucket \in Buckets :
        \E ans \in AnswersFor(list_pinned_objects(client, bucket, Probe).requests, HttpAnswers) :
            Invoke([op |-> "list_pinned_objects", bucket |-> bucket], list_pinned_objects(client, bucket, ans), ans)

ListBuckets ==
    \E ans \in AnswersFor(list_buckets(client, Probe).requests, ListBucketsAnswers) :
        Invoke([op |-> "list_buckets"], list_buckets(client, ans), ans)

UploadObject ==
    \E path_to_file \in Paths, name \in Names, bucket \in Buckets :
        \E ans \in AnswersFor(upload_object(client, path_to_file, name, bucket, Probe).requests, PutObjectAnswers) :
            Invoke([op |-> "upload_object", path_to_file |-> path_to_file, name |-> name, bucket |-> bucket],
                   upload_object(client, path_to_file, name, bucket, ans), ans)

DeleteObject ==
    \E name \in Names, bucket \in Buckets :
        \E ans \in AnswersFor(delete_object(client, name, bucket, Probe).requests, PlainAnswers) :
            Invoke([op |-> "delete_object", name |-> name, bucket |-> bucket], delete_object(client, name, bucket, ans), ans)

UploadMetadataOf(datas, names, buckets, answers) ==
    \E data \in datas, name \in names, bucket \in buckets :
        \E ans \in AnswersFor(upload_metadata(client, data, name, bucket, Probe).requests, answers) :
            Invoke([op |-> "upload_metadata", data |-> data, name |-> name, bucket |-> bucket],
                   upload_metadata(client, data, name, bucket, ans), ans)

UploadMetadata == UploadMetadataOf(DataSample, Names, Buckets, PutObjectAnswers)

Next ==
    \/ CreateBucket
    \/ ListPinnedObjects
    \/ ListBuckets
    \/ UploadObject
    \/ DeleteObject
    \/ UploadMetadata

Spec == Init /\ [][Next]_vars

(***************************************************************************)
(* The serialization of upload_metadata over the data of every depth up to *)
(* MaxDepth, on one client, one bucket and one key.                        *)
(***************************************************************************)
InitJson ==
    /\ client = Filebase(<<107>>, <<115>>)
    /\ call = [op |-> "__init__"]
    /\ requests = <<>>
    /\ answer = NoAnswer
    /\ outcome = [kind |-> "return", shape |-> "none"]

JsonAnswers == {a \in PutObjectAnswers : a.kind = "raise" \/ a.response.ResponseMetadata.HTTPStatusCode = 200}

UploadMetadataJson == UploadMetadataOf(Data, Names, {<<66>>}, JsonAnswers)

NextJson == UploadMetadataJson

SpecJson == InitJson /\ [][NextJson]_vars

(***************************************************************************)
(* Operators the properties are stated with.                               *)
(***************************************************************************)
OpsWithBucket == {"create_bucket", "upload_object", "delete_object", "upload_metadata", "list_pinned_objects"}

ObjectStoreOps == {"create_bucket", "list_buckets", "upload_object", "delete_object", "upload_metadata"}

\* the bucket argument of the last call (create_bucket calls it name)
BucketArg == IF call.op = "create_bucket" THEN call.name ELSE call.bucket

StatusOf(response) == response.ResponseMetadata.HTTPStatusCode

\* whether a response carries the success payload of the operation
HasPayload(op, response) ==
    IF op = "list_buckets" THEN "Buckets" \in DOMAIN response
    ELSE IF op \in {"upload_object", "upload_metadata"} THEN "x-amz-meta-cid" \in DOMAIN response.ResponseMetadata.HTTPHeaders
    ELSE TRUE

\* the success payload of the operation, for a response that carries it
PayloadOf(op, response) ==
    IF op = "list_buckets" THEN response.Buckets
    ELSE IF op \in {"upload_object", "upload_metadata"} THEN response.ResponseMetadata.HTTPHeaders["x-amz-meta-cid"]
    ELSE response

\* base64 decoding, the inverse of the standard alphabet and padding
B64Index(c) == IF c >= 65 /\ c <= 90 THEN c - 65 ELSE IF c >= 97 /\ c <= 122 THEN c - 71 ELSE IF c >= 48 /\ c <= 57 THEN c + 4 ELSE IF c = 43 THEN 62 ELSE 63

RECURSIVE B64Decode(_)
B64Decode(t) ==
    IF Len(t) < 4 THEN <<>>
    ELSE LET b1 == B64Index(t[1]) * 4 + (B64Index(t[2]) \div 16)
             b2 == (B64Index(t[2]) % 16) * 16 + (B64Index(t[3]) \div 4)
             b3 == (B64Index(t[3]) % 4) * 64 + B64Index(t[4])
         IN  IF t[3] = 61 THEN <<b1>>
             ELSE IF t[4] = 61 THEN <<b1, b2>>
             ELSE <<b1, b2, b3>> \o B64Decode(SubSeq(t, 5, Len(t)))

\* whether an Authorization header value is 'Bearer ' followed by the base64
\* encoding of the UTF-8 bytes of api_key ':' secret_key ':' bucket
IsBearerOf(auth, api_key, secret_key, bucket) ==
    /\ Len(auth) >= 7
    /\ SubSeq(auth, 1, 7) = <<66, 101, 97, 114, 101, 114, 32>>
    /\ (Len(auth) - 7) % 4 = 0
    /\ B64Decode(SubSeq(auth, 8, Len(auth))) = Utf8Bytes(api_key \o <<58>> \o secret_key \o <<58>> \o bucket)

\* whether api_key ':' secret_key ':' bucket has a UTF-8 encoding
Encodable(bucket) ==
    LET text == client.filebase_api_key \o <<58>> \o client.filebase_secret_api_key \o <<58>> \o bucket
    IN  \A i \in 1..Len(text) : text[i] < 55296 \/ text[i] > 57343

\* Python's == on the modelled values: bool and int compare by number, NaN
\* equals nothing, a dict equals a dict with the same items in any order
RECURSIVE PyEq(_, _)
PyEq(a, b) ==
    IF a.t \in {"bool", "int"} /\ b.t \in {"bool", "int"}
    THEN (IF a.t = "bool" THEN (IF a.v THEN 1 ELSE 0) ELSE a.v) = (IF b.t = "bool" THEN (IF b.v THEN 1 ELSE 0) ELSE b.v)
    ELSE IF a.t # b.t THEN FALSE
    ELSE IF a.t = "NoneType" THEN TRUE
    ELSE IF a.t = "float" THEN FALSE
    ELSE IF a.t = "str" THEN a.v = b.v
    ELSE IF a.t \in {"list", "tuple"} THEN Len(a.v) = Len(b.v) /\ \A i \in 1..Len(a.v) : PyEq(a.v[i], b.v[i])
    ELSE IF a.t = "dict" THEN
        /\ Len(a.v) = Len(b.v)
        /\ \A i \in 1..Len(a.v) : \E j \in 1..Len(b.v) : PyEq(a.v[i].k, b.v[j].k) /\ PyEq(a.v[i].v, b.v[j].v)
    ELSE a.v = b.v

\* values JSON holds as they are: None, bool, int, str, lists of such, and
\* dicts of such with str keys
RECURSIVE JsonNative(_)
JsonNative(o) ==
    IF o.t \in {"NoneType", "bool", "int", "str"} THEN TRUE
    ELSE IF o.t = "list" THEN \A i \in 1..Len(o.v) : JsonNative(o.v[i])
    ELSE IF o.t = "dict" THEN \A i \in 1..Len(o.v) : o.v[i].k.t = "str" /\ JsonNative(o.v[i].v)
    ELSE FALSE

\* the JSON value a serializable Python value stands for: a tuple is an
\* array, a dict key is its text
RECURSIVE JsonImage(_)
RECURSIVE JsonImageItems(_, _, _)
JsonImage(o) ==
    IF o.t \in {"list", "tuple"} THEN PyList([i \in 1..Len(o.v) |-> JsonImage(o.v[i])])
    ELSE IF o.t = "dict" THEN PyDict(JsonImageItems(o.v, 1, <<>>))
    ELSE o

JsonImageItems(items, i, acc) ==
    IF i > Len(items) THEN acc
    ELSE JsonImageItems(items, i + 1, SetItem(acc, PyStr(KeyText(items[i].k)), JsonImage(items[i].v)))

\* whether every line of JSON text t after the first starts with 4 spaces
\* for each container open at that point (a closing bracket stands one
\* level out); the strings of the modelled data hold no brackets
IndentOk(t) ==
    \A i \in 1..Len(t) :
        t[i] = 10 =>
            LET j == CHOOSE n \in (i + 1)..(Len(t) + 1) : (\A k \in (i + 1)..(n - 1) : t[k] = 32) /\ (n = Len(t) + 1 \/ t[n] # 32)
                opened == Cardinality({k \in 1..i : t[k] \in {91, 123}})
                closed == Cardinality({k \in 1..i : t[k] \in {93, 125}})
                closing == j <= Len(t) /\ t[j] \in {93, 125}
            IN  j - (i + 1) = 4 * (opened - closed - (IF closing THEN 1 ELSE 0))

\* the text of the body upload_metadata sent
SentText == ascii_decode(requests[1].Body.bytes)

(***************************************************************************)
(* Properties.                                                             *)
(***************************************************************************)

\* C1: no operation ever terminates by raising to the caller; every
\* exception during a call, bearer-token encoding included, is returned as
\* the call's value.
C1_NeverRaises == outcome.kind # "raise"

\* C2 as stated: for an object-store operation whose backend call returned a
\* response, status 200 gives the success payload and every other status an
\* ErrorRecord {status, reason, text}.
C2_Status200GivesPayload ==
    (call.op \in ObjectStoreOps /\ answer.kind = "response") =>
        IF StatusOf(answer.response) = 200
        THEN outcome.kind = "return" /\ outcome.shape = "payload" /\ outcome.value = PayloadOf(call.op, answer.response)
        ELSE outcome = Returned("error_record", [status |-> StatusOf(answer.response), reason |-> StatusOf(answer.response), text |-> answer.response])

\* C2 amended: status 200 gives the success payload when the response carries
\* it (always for create_bucket and delete_object, the Buckets key for
\* list_buckets, the x-amz-meta-cid header for the uploads) and otherwise the
\* KeyError of the failed lookup, returned as a value; every other status,
\* 204 included, gives an ErrorRecord and never the success payload.
C2_StatusBranch ==
    (call.op \in ObjectStoreOps /\ answer.kind = "response") =>
        IF StatusOf(answer.response) # 200
        THEN outcome = Returned("error_record", [status |-> StatusOf(answer.response), reason |-> StatusOf(answer.response), text |-> answer.response])
        ELSE IF HasPayload(call.op, answer.response)
        THEN outcome = Returned("payload", PayloadOf(call.op, answer.response))
        ELSE outcome = Returned("exception", Exc("KeyError"))

\* C2 witness: delete_object answered 204 returned an ErrorRecord.
C2_Witness ==
    /\ call.op = "delete_object"
    /\ answer.kind = "response"
    /\ StatusOf(answer.response) = 204
    /\ outcome.shape = "error_record"
    /\ outcome.value.status = 204

\* C3: every operation that takes a bucket name sends the backend the
\* lowercased bucket name (in the Bucket parameter, or in the bearer token of
\* list_pinned_objects), and object keys unchanged.
C3_BucketLowercased ==
    (call.op \in OpsWithBucket /\ requests # <<>>) =>
        /\ call.op # "list_pinned_objects" => requests[1].Bucket = lower(BucketArg)
        /\ call.op \in {"upload_object", "delete_object", "upload_metadata"} => requests[1].Key = call.name
        /\ call.op = "list_pinned_objects" =>
               IsBearerOf(requests[1].headers["Authorization"], client.filebase_api_key, client.filebase_secret_api_key, lower(BucketArg))

\* C4: an error record made from an object-store response (a dict) has
\* status = the HTTP status code of its metadata, reason equal to that status
\* and text = the whole response; one made from an HTTP response object has
\* status = status code, reason = reason phrase, text = body text.
C4_HandleError ==
    outcome.shape = "error_record" =>
        IF call.op \in ObjectStoreOps
        THEN /\ outcome.value.status = answer.response.ResponseMetadata.HTTPStatusCode
             /\ outcome.value.reason = outcome.value.status
             /\ outcome.value.text = answer.response
        ELSE /\ outcome.value.status = answer.response.status_code
             /\ outcome.value.reason = answer.response.reason
             /\ outcome.value.text = answer.response.text

\* C4 witness: an error record made from an object-store response.
C4_Witness ==
    /\ outcome.shape = "error_record"
    /\ call.op = "upload_object"
    /\ outcome.value.reason = 404
    /\ "x-amz-meta-cid" \in DOMAIN outcome.value.text.ResponseMetadata.HTTPHeaders

\* the one GET of list_pinned_objects: URL, Authorization and Content-Type
PinRequestOk ==
    /\ Len(requests) = 1
    /\ requests[1].api = "requests.get"
    /\ requests[1].url = "https://api.filebase.io/v1/ipfs/pins"
    /\ DOMAIN requests[1].headers = {"Authorization", "Content-Type"}
    /\ requests[1].headers["Content-Type"] = "application/json"
    /\ IsBearerOf(requests[1].headers["Authorization"], client.filebase_api_key, client.filebase_secret_api_key, call.bucket)

\* C5 as stated: list_pinned_objects issues exactly one GET, to the base URL
\* followed by ipfs/pins, with Authorization 'Bearer ' + base64 of
\* api_key:secret_key:bucket and Content-Type application/json.
C5_ExactlyOneGet == call.op = "list_pinned_objects" => PinRequestOk

\* C5 amended: list_pinned_objects issues that one GET whenever
\* api_key:secret_key:bucket has a UTF-8 encoding, and no request at all when
\* it has none (a lone surrogate in it).
C5_OneGetWhenEncodable ==
    call.op = "list_pinned_objects" =>
        IF Encodable(call.bucket) THEN PinRequestOk ELSE requests = <<>>

\* C5 witness: a GET whose token encodes a two-byte character.
C5_Witness ==
    /\ call.op = "list_pinned_objects"
    /\ call.bucket = <<201>>
    /\ client.filebase_api_key = <<107>>
    /\ Len(requests) = 1

\* C6: answered with a non-OK status (400..599), list_pinned_objects returns
\* the ErrorRecord {status code, reason phrase, body text} and does not
\* raise; it returns the parsed JSON body only when the status is OK.
C6_NonOkGivesErrorRecord ==
    (call.op = "list_pinned_objects" /\ answer.kind = "response") =>
        /\ (answer.response.status_code >= 400 /\ answer.response.status_code <= 599) =>
               outcome = Returned("error_record", [status |-> answer.response.status_code, reason |-> answer.response.reason, text |-> answer.response.text])
        /\ outcome.shape = "payload" =>
               /\ answer.response.status_code < 400
               /\ loads(answer.response.text) = [ok |-> TRUE, val |-> outcome.value]
        /\ outcome.kind = "return"

\* C6 witness: a 500 answer returned as an ErrorRecord.
C6_Witness ==
    /\ call.op = "list_pinned_objects"
    /\ answer.kind = "response"
    /\ answer.response.status_code = 500
    /\ outcome = Returned("error_record", [status |-> 500, reason |-> "Internal Server Error", text |-> answer.response.text])

C8_MissingFileNoCall ==
    (call.op = "upload_object" /\ call.path_to_file \notin DOMAIN FileSystem) =>
        /\ outcome = Returned("exception", Exc("FileNotFoundError"))
        /\ requests = <<>>

\* C8 witness: the demo call's path, which does not exist.
C8_Witness ==
    /\ call.op = "upload_object"
    /\ call.path_to_file = "/dir/to/file/test.png"
    /\ outcome.shape = "exception"
    /\ answer = NoAnswer

\* C9: no operation writes a client field, and a call repeated with the same
\* arguments and the same backend answer ends the same way, whatever call
\* came before.
C9_ClientUnchanged ==
    [][/\ client' = client
       /\ (call' = call /\ answer' = answer) => (outcome' = outcome /\ requests' = requests)]_vars

\* C9 witness: a call has returned an exception and the client is as
\* constructed.
C9_Witness ==
    /\ call.op = "upload_metadata"
    /\ outcome.shape = "exception"
    /\ client = Filebase(<<107>>, <<115>>)

\* whether the last call fails locally before it reaches its backend call
FailsBeforeCall ==
    \/ call.op = "upload_object" /\ call.path_to_file \notin DOMAIN FileSystem
    \/ call.op = "upload_metadata" /\ ~Serializable(call.data)
    \/ call.op = "list_pinned_objects" /\ ~Encodable(call.bucket)

\* C10: an operation makes at most one backend call, and exactly one when no
\* local exception occurs before the call; whatever the backend answers,
\* there is no second call.
C10_SingleCall ==
    call.op # "__init__" =>
        /\ Len(requests) <= 1
        /\ Len(requests) = 1 <=> ~FailsBeforeCall
        /\ answer.kind \in {"response", "raise"} => Len(requests) = 1

\* C10 witness: the backend raised, the exception was returned, one call.
C10_Witness ==
    /\ call.op = "delete_object"
    /\ answer.kind = "raise"
    /\ outcome = Returned("exception", Exc("ClientError"))
    /\ Len(requests) = 1

====
